---- MODULE Spec2Model ----
(***************************************************************************)
(* Within-camera tracking of wandr: the ByteTrack tracker                  *)
(* (backend/app/cv/byte_tracker.py) and the tracklet generator built on it *)
(* (backend/app/cv/tracklet_generator.py).                                 *)
(*                                                                         *)
(* Numbers: confidences and IoU thresholds are kept as integer percent /   *)
(* per mille of the Python floats (0.6 -> 60, 0.5 -> 50); boxes have       *)
(* integer pixel coordinates, which float32 holds exactly; an IoU is kept  *)
(* as the pair intersection / union and compared by cross multiplication.  *)
(***************************************************************************)
EXTENDS Integers, Sequences, FiniteSets, TLC

(***************************************************************************)
(* Program constants                                                       *)
(***************************************************************************)
\* Track.update: "if self.state == TrackState.NEW and self.hits >= 3"
ConfirmHits == 3
\* Track.update: "if len(self.bbox_history) > 30"
HistoryCap == 30
\* Track.mark_missed: "if self.time_since_update > 10"
RemoveAfter == 10
\* Track.mark_missed: "elif self.time_since_update > 3"
LostAfter == 3
\* ByteTracker.__init__ defaults: track_thresh = 0.6 (percent)
TrackThresh == 60
\* match_thresh = 0.5 (percent)
MatchThresh == 50
\* track_buffer = 10
TrackBuffer == 10
\* min_box_area = 100
MinBoxArea == 100
\* stage 2 threshold: match_thresh * 0.8 (factor in tenths)
Stage2Factor == 8
\* stage 3 threshold: match_thresh * 0.7 (factor in tenths)
Stage3Factor == 7
\* TrackletGenerator.process_frame: "(frame_id - frame_ids[-1]) >= 3"
SampleStride == 3
\* TrackletGenerator._create_tracklet: "if len(appearance_data["outfits"]) < 2"
MinObservations == 2

(***************************************************************************)
(* Bounds of the model                                                     *)
(***************************************************************************)
\* frames of one run of Spec and SpecConfirmed
MaxFrames == 2
\* detections of one frame of Spec and SpecConfirmed
MaxDets == 2
\* Track objects constructed in one run of Spec and SpecConfirmed
MaxTracks == 3
\* frames of one run of SpecScenario
MaxScenarioFrames == 22
\* stretches of presence and absence in one run of SpecScenario
MaxRuns == 3
\* finalize_all_tracks calls in one run
MaxFlushes == 2
\* Track.update calls on the track of SpecTrack
MaxHits == 4
\* Track.mark_missed calls on the track of SpecTrack and SpecHistory
MaxAge == 12
\* Track.update calls on the track of SpecHistory
MaxUpdates == 32
MaxCoord == 3
MaxEmbeddingFrames == 4
MaxLongFrames == 4
MaxReturnFrames == 3
MaxOutfitSamples == 3
MaxAggregations == 2
MaxBoxSamples == 2

New == "New"
Tracked == "Tracked"
Lost == "Lost"
Removed == "Removed"
TrackStates == {New, Tracked, Lost, Removed}

(***************************************************************************)
(* Sequence helpers                                                        *)
(***************************************************************************)
Range(s) == {s[i] : i \in DOMAIN s}

RECURSIVE SelectIdx(_, _, _)
\* the ascending list of the positions i >= from of 1..n that lie in keep
SelectIdx(n, keep, from) ==
  IF from > n THEN <<>>
  ELSE IF from \in keep THEN <<from>> \o SelectIdx(n, keep, from + 1)
  ELSE SelectIdx(n, keep, from + 1)

Max(a, b) == IF a >= b THEN a ELSE b
Min(a, b) == IF a <= b THEN a ELSE b

RECURSIVE Gcd(_, _)
Gcd(a, b) == IF b = 0 THEN a ELSE Gcd(b, a % b)

Lcm(a, b) == (a \div Gcd(a, b)) * b

RECURSIVE LcmOf(_)
LcmOf(S) ==
  IF S = {} THEN 1
  ELSE LET x == CHOOSE y \in S : TRUE IN Lcm(x, LcmOf(S \ {x}))

(***************************************************************************)
(* Detection (byte_tracker.py 38-70)                                       *)
(***************************************************************************)
\* a box is <<x1, y1, x2, y2>>
Detection(bbox, confidence, frame_id) ==
  [bbox |-> bbox, confidence |-> confidence, frame_id |-> frame_id]

\* Detection.area: max(0, (x2 - x1) * (y2 - y1))
Area(bbox) == Max(0, (bbox[3] - bbox[1]) * (bbox[4] - bbox[2]))

(***************************************************************************)
(* ByteTracker._iou (byte_tracker.py 369-403), as <<numerator,             *)
(* denominator>> in lowest terms; 0.0 is <<0, 1>>.                         *)
(***************************************************************************)
\* _iou dividing the intersection by the area of the first box
IouOverFirst(b1, b2) ==
  LET x_left == Max(b1[1], b2[1])
      y_top == Max(b1[2], b2[2])
      x_right == Min(b1[3], b2[3])
      y_bottom == Min(b1[4], b2[4])
      intersection == (x_right - x_left) * (y_bottom - y_top)
      area1 == (b1[3] - b1[1]) * (b1[4] - b1[2])
  IN IF x_right < x_left \/ y_bottom < y_top THEN <<0, 1>>
     ELSE IF area1 = 0 THEN <<0, 1>>
     ELSE IF intersection = 0 THEN <<0, 1>>
     ELSE LET g == Gcd(intersection, area1)
          IN <<intersection \div g, area1 \div g>>

Iou(b1, b2) ==
  LET x_left == Max(b1[1], b2[1])
      y_top == Max(b1[2], b2[2])
      x_right == Min(b1[3], b2[3])
      y_bottom == Min(b1[4], b2[4])
      intersection == (x_right - x_left) * (y_bottom - y_top)
      area1 == (b1[3] - b1[1]) * (b1[4] - b1[2])
      area2 == (b2[3] - b2[1]) * (b2[4] - b2[2])
      union == area1 + area2 - intersection
  IN IF x_right < x_left \/ y_bottom < y_top THEN <<0, 1>>
     ELSE IF union = 0 THEN <<0, 1>>
     ELSE IF intersection = 0 THEN <<0, 1>>
     ELSE LET g == Gcd(intersection, union)
          IN <<intersection \div g, union \div g>>

(***************************************************************************)
(* The threshold test of _match, "iou_matrix[row, col] >= iou_threshold":  *)
(* the left side is the float32 the IoU was stored as, the right side the  *)
(* Python float of the stage.  Stage 1 compares with 0.5, which float32    *)
(* holds exactly.  Stage 2 compares with 0.5 * 0.8 = 0.4; float32(0.4) is  *)
(* 0.4000000059..., above it, so an IoU of exactly 2/5 passes.  Stage 3    *)
(* compares with 0.5 * 0.7 = 0.35; float32(0.35) is 0.3499999940...,       *)
(* below it, so an IoU of exactly 7/20 does not pass and the test is       *)
(* strict there.  Every other IoU of integer boxes this small is further   *)
(* from the threshold than float32 rounds.                                 *)
(***************************************************************************)
StagePerMille(stage) ==
  IF stage = 1 THEN MatchThresh * 10
  ELSE IF stage = 2 THEN MatchThresh * Stage2Factor
  ELSE MatchThresh * Stage3Factor

\* _match keeping every pair the assignment chose
AlwaysMeets(iou, stage) == TRUE

MeetsThreshold(iou, stage) ==
  IF stage = 3
  THEN iou[1] * 1000 > StagePerMille(stage) * iou[2]
  ELSE iou[1] * 1000 >= StagePerMille(stage) * iou[2]

(***************************************************************************)
(* Track (byte_tracker.py 73-174)                                          *)
(***************************************************************************)
\* Track(...) with __post_init__: the histories start with the first
\* observation; hits, age and time_since_update take the dataclass defaults
MakeTrack(track_id, bbox, confidence, frame_id, state) ==
  [track_id |-> track_id, bbox |-> bbox, confidence |-> confidence,
   frame_id |-> frame_id, state |-> state, age |-> 0, hits |-> 0,
   time_since_update |-> 0,
   bbox_history |-> <<bbox>>,
   confidence_history |-> <<confidence>>,
   frame_history |-> <<frame_id>>]

\* a full history list refusing the new entry
DropNewest(history, entry) ==
  IF Len(history) >= HistoryCap THEN history ELSE Append(history, entry)

\* the history lists after an append and the pop(0) that keeps the last 30
Capped(history, entry) ==
  LET h == Append(history, entry)
  IN IF Len(h) > HistoryCap THEN Tail(h) ELSE h

\* Track.update confirming a track one match early
TrackUpdateEager(t, d) ==
  LET hits == t.hits + 1
  IN [t EXCEPT
        !.bbox = d.bbox,
        !.confidence = d.confidence,
        !.frame_id = d.frame_id,
        !.hits = hits,
        !.time_since_update = 0,
        !.bbox_history = Capped(t.bbox_history, d.bbox),
        !.confidence_history = Capped(t.confidence_history, d.confidence),
        !.frame_history = Capped(t.frame_history, d.frame_id),
        !.state = IF t.state = New /\ hits >= ConfirmHits - 1 THEN Tracked
                  ELSE IF t.state = Lost THEN Tracked
                  ELSE t.state]

\* Track.update counting the matched frame into age as well
TrackUpdateAging(t, d) ==
  LET hits == t.hits + 1
  IN [t EXCEPT
        !.bbox = d.bbox,
        !.confidence = d.confidence,
        !.frame_id = d.frame_id,
        !.hits = hits,
        !.age = t.age + 1,
        !.time_since_update = 0,
        !.bbox_history = Capped(t.bbox_history, d.bbox),
        !.confidence_history = Capped(t.confidence_history, d.confidence),
        !.frame_history = Capped(t.frame_history, d.frame_id),
        !.state = IF t.state = New /\ hits >= ConfirmHits THEN Tracked
                  ELSE IF t.state = Lost THEN Tracked
                  ELSE t.state]

\* Track.update leaving a Lost track Lost
TrackUpdateNoRecover(t, d) ==
  LET hits == t.hits + 1
  IN [t EXCEPT
        !.bbox = d.bbox,
        !.confidence = d.confidence,
        !.frame_id = d.frame_id,
        !.hits = hits,
        !.time_since_update = 0,
        !.bbox_history = Capped(t.bbox_history, d.bbox),
        !.confidence_history = Capped(t.confidence_history, d.confidence),
        !.frame_history = Capped(t.frame_history, d.frame_id),
        !.state = IF t.state = New /\ hits >= ConfirmHits THEN Tracked
                  ELSE IF t.state = Lost THEN Lost
                  ELSE t.state]

\* Track.update(detection)
TrackUpdate(t, d) ==
  LET hits == t.hits + 1
  IN [t EXCEPT
        !.bbox = d.bbox,
        !.confidence = d.confidence,
        !.frame_id = d.frame_id,
        !.hits = hits,
        !.time_since_update = 0,
        !.bbox_history = Capped(t.bbox_history, d.bbox),
        !.confidence_history = Capped(t.confidence_history, d.confidence),
        !.frame_history = Capped(t.frame_history, d.frame_id),
        !.state = IF t.state = New /\ hits >= ConfirmHits THEN Tracked
                  ELSE IF t.state = Lost THEN Tracked
                  ELSE t.state]

\* Track.mark_missed()
\* mark_missed turning a track Lost one frame late, at
\* "time_since_update > 4"
MarkMissedLate(t) ==
  LET tsu == t.time_since_update + 1
  IN [t EXCEPT
        !.time_since_update = tsu,
        !.age = t.age + 1,
        !.state = IF tsu > RemoveAfter THEN Removed
                  ELSE IF tsu > LostAfter + 1 THEN Lost
                  ELSE t.state]

MarkMissed(t) ==
  LET tsu == t.time_since_update + 1
  IN [t EXCEPT
        !.time_since_update = tsu,
        !.age = t.age + 1,
        !.state = IF tsu > RemoveAfter THEN Removed
                  ELSE IF tsu > LostAfter THEN Lost
                  ELSE t.state]

\* Track.is_active
IsActive(t) == t.state \in {New, Tracked}

(***************************************************************************)
(* ByteTracker._match (byte_tracker.py 321-367).  tboxes and dboxes are    *)
(* the boxes of the tracks and of the detections of the stage.  The        *)
(* result is the set of outcomes linear_sum_assignment allows: it returns  *)
(* min(n, m) pairs of least total cost 1 - IoU, and which of several       *)
(* assignments of the same least cost it returns is not specified.         *)
(***************************************************************************)
\* the complete assignments of an n x m cost matrix, as sets of <<row, col>>
Assignments(n, m) ==
  IF n <= m
  THEN {{<<r, f[r]>> : r \in 1..n} :
          f \in {g \in [1..n -> 1..m] :
                   \A a, b \in 1..n : a # b => g[a] # g[b]}}
  ELSE {{<<f[c], c>> : c \in 1..m} :
          f \in {g \in [1..m -> 1..n] :
                   \A a, b \in 1..m : a # b => g[a] # g[b]}}

RECURSIVE SumOver(_, _)
\* the sum of w[x] over the x of S
SumOver(S, w) ==
  IF S = {} THEN 0
  ELSE LET x == CHOOSE y \in S : TRUE IN w[x] + SumOver(S \ {x}, w)

\* the assignments of greatest total IoU (least total cost)
OptimalAssignments(tboxes, dboxes) ==
  LET n == Len(tboxes)
      m == Len(dboxes)
      iou == [p \in (1..n) \X (1..m) |-> Iou(tboxes[p[1]], dboxes[p[2]])]
      L == LcmOf({iou[p][2] : p \in (1..n) \X (1..m)})
      weight == [p \in (1..n) \X (1..m) |-> iou[p][1] * (L \div iou[p][2])]
      all == Assignments(n, m)
  IN {A \in all : \A B \in all : SumOver(A, weight) >= SumOver(B, weight)}

\* one outcome of _match: the pairs of A that pass the threshold, in row
\* order, and the rows and columns left over
MatchOutcome(tboxes, dboxes, stage, A) ==
  LET ok == {p \in A : MeetsThreshold(Iou(tboxes[p[1]], dboxes[p[2]]), stage)}
      rows == {p[1] : p \in ok}
      cols == {p[2] : p \in ok}
      rowSeq == SelectIdx(Len(tboxes), rows, 1)
      colOf(r) == (CHOOSE p \in ok : p[1] = r)[2]
  IN [matches |-> [i \in 1..Len(rowSeq) |-> <<rowSeq[i], colOf(rowSeq[i])>>],
      unmatched_dets |-> SelectIdx(Len(dboxes), (1..Len(dboxes)) \ cols, 1),
      unmatched_tracks |-> SelectIdx(Len(tboxes), (1..Len(tboxes)) \ rows, 1)]

Match(tboxes, dboxes, stage) ==
  IF Len(tboxes) = 0 \/ Len(dboxes) = 0
  THEN {[matches |-> <<>>,
         unmatched_dets |-> SelectIdx(Len(dboxes), 1..Len(dboxes), 1),
         unmatched_tracks |-> SelectIdx(Len(tboxes), 1..Len(tboxes), 1)]}
  ELSE {MatchOutcome(tboxes, dboxes, stage, A) :
          A \in OptimalAssignments(tboxes, dboxes)}

(***************************************************************************)
(* State.  A Track is a mutable object that several lists can hold at     *)
(* once: tracks is the store of every Track object constructed so far,    *)
(* indexed by object identity, and the tracker's lists hold identities.   *)
(***************************************************************************)
VARIABLES
  tracks,               \* Seq of Track records: the objects, by identity
  tracked_tracks,       \* ByteTracker.tracked_tracks: Seq of identities
  lost_tracks,          \* ByteTracker.lost_tracks
  removed_tracks,       \* ByteTracker.removed_tracks
  next_id,              \* ByteTracker.next_id
  frame_id,             \* ByteTracker.frame_id
  track_appearances,    \* TrackletGenerator.track_appearances: track_id -> cache entry
  completed_tracklets,  \* TrackletGenerator.completed_tracklets
  frame_count,          \* TrackletGenerator.frame_count
  clock,                \* the caller's frame number: frames handed in so far
  last                  \* history: the last call, its input and what it did

vars == <<tracks, tracked_tracks, lost_tracks, removed_tracks, next_id,
          frame_id, track_appearances, completed_tracklets, frame_count,
          clock, last>>

\* the tracker's fields as one value
Tracker ==
  [tracks |-> tracks, tracked |-> tracked_tracks, lost |-> lost_tracks,
   removed |-> removed_tracks, next_id |-> next_id, frame_id |-> frame_id]

(***************************************************************************)
(* ByteTracker.update (byte_tracker.py 222-319), stage by stage.  Each     *)
(* stage maps a context (the tracker's fields and the locals of update)    *)
(* to the set of contexts _match allows.  Detections are named by their    *)
(* position in the caller's list; events records every Track.update and    *)
(* every Track construction of the call.                                   *)
(***************************************************************************)
\* the positions of dets, in order, that satisfy keep
Positions(dets, keep(_)) ==
  SelectIdx(Len(dets), {i \in 1..Len(dets) : keep(dets[i])}, 1)

\* detections = [d for d in detections if d.area >= self.min_box_area]
KeptDets(dets) == Positions(dets, LAMBDA d : Area(d.bbox) >= MinBoxArea)

\* high_dets with "d.confidence > self.track_thresh"
HighDetsAbove(dets) ==
  Positions(dets, LAMBDA d : Area(d.bbox) >= MinBoxArea
                             /\ d.confidence > TrackThresh)

\* high_dets after a filter "d.area > self.min_box_area"
HighDetsLarger(dets) ==
  Positions(dets, LAMBDA d : Area(d.bbox) > MinBoxArea
                             /\ d.confidence >= TrackThresh)

\* high_dets taken from all detections, the small ones too
HighDetsAnyArea(dets) ==
  Positions(dets, LAMBDA d : d.confidence >= TrackThresh)

\* high_dets = [d for d in detections if d.confidence >= self.track_thresh]
HighDets(dets) ==
  Positions(dets, LAMBDA d : Area(d.bbox) >= MinBoxArea
                             /\ d.confidence >= TrackThresh)

\* low_dets = [d for d in detections if d.confidence < self.track_thresh]
LowDets(dets) ==
  Positions(dets, LAMBDA d : Area(d.bbox) >= MinBoxArea
                             /\ d.confidence < TrackThresh)

\* confirmed_tracks = [t for t in self.tracked_tracks if t.state == TRACKED]
ConfirmedTracks(store, tracked) ==
  SelectSeq(tracked, LAMBDA o : store[o].state = Tracked)

\* unconfirmed_tracks = [t for t in self.tracked_tracks if t.state == NEW]:
\* computed and never used
UnconfirmedTracks(store, tracked) ==
  SelectSeq(tracked, LAMBDA o : store[o].state = New)

BoxesOfTracks(store, oids) == [i \in 1..Len(oids) |-> store[oids[i]].bbox]
BoxesOfDets(dets, idx) == [i \in 1..Len(idx) |-> dets[idx[i]].bbox]

RECURSIVE ApplyMatches(_, _, _, _, _)
\* "for track_idx, det_idx in matches: tracks[track_idx].update(dets[det_idx])",
\* from the i-th match on; oids and idx name the stage's tracks and detections
ApplyMatches(store, dets, oids, idx, matches) ==
  IF matches = <<>> THEN store
  ELSE LET o == oids[Head(matches)[1]]
           d == dets[idx[Head(matches)[2]]]
       IN ApplyMatches([store EXCEPT ![o] = TrackUpdate(store[o], d)],
                       dets, oids, idx, Tail(matches))

MatchEvents(stage, oids, idx, matches) ==
  [i \in 1..Len(matches) |->
     [stage |-> stage, track |-> oids[matches[i][1]], det |-> idx[matches[i][2]]]]

\* Stage 1: high-confidence detections against confirmed tracks
Stage1(T, dets) ==
  LET high == HighDets(dets)
      confirmed == ConfirmedTracks(T.tracks, T.tracked)
  IN {[tracks |-> ApplyMatches(T.tracks, dets, confirmed, high, m.matches),
       tracked |-> T.tracked, lost |-> T.lost, removed |-> T.removed,
       next_id |-> T.next_id, frame_id |-> T.frame_id + 1,
       high |-> high, low |-> LowDets(dets),
       unmatched_dets_stage1 |-> m.unmatched_dets,
       unmatched_confirmed |->
         [i \in 1..Len(m.unmatched_tracks) |-> confirmed[m.unmatched_tracks[i]]],
       events |-> MatchEvents(1, confirmed, high, m.matches)] :
      m \in Match(BoxesOfTracks(T.tracks, confirmed), BoxesOfDets(dets, high), 1)}

\* Stage 2: low-confidence detections against the confirmed tracks stage 1
\* left unmatched
Stage2(c, dets) ==
  {[c EXCEPT
      !.tracks = ApplyMatches(c.tracks, dets, c.unmatched_confirmed, c.low,
                              m.matches),
      !.unmatched_confirmed =
         [i \in 1..Len(m.unmatched_tracks) |->
            c.unmatched_confirmed[m.unmatched_tracks[i]]],
      !.events = c.events
                 \o MatchEvents(2, c.unmatched_confirmed, c.low, m.matches)] :
     m \in Match(BoxesOfTracks(c.tracks, c.unmatched_confirmed),
                 BoxesOfDets(dets, c.low), 2)}

\* update forgetting which high-confidence detections stage 3 matched
RemainingHighAll(unmatched1, unmatched3) == unmatched1

\* remaining_high_det_indices = [unmatched_dets_stage1[i] for i in unmatched_dets_stage3]
RemainingHigh(unmatched1, unmatched3) ==
  [i \in 1..Len(unmatched3) |-> unmatched1[unmatched3[i]]]

\* Stage 3: the high-confidence detections stage 1 left unmatched against
\* self.lost_tracks; a matched track is updated and appended to
\* tracked_tracks, and lost_tracks keeps the rows left unmatched
Stage3(c, dets) ==
  LET rest == [i \in 1..Len(c.unmatched_dets_stage1) |->
                 c.high[c.unmatched_dets_stage1[i]]]
  IN {[c EXCEPT
         !.tracks = ApplyMatches(c.tracks, dets, c.lost, rest, m.matches),
         !.tracked = c.tracked
                     \o [i \in 1..Len(m.matches) |-> c.lost[m.matches[i][1]]],
         !.lost = [i \in 1..Len(m.unmatched_tracks) |->
                     c.lost[m.unmatched_tracks[i]]],
         !.unmatched_dets_stage1 =
            RemainingHigh(c.unmatched_dets_stage1, m.unmatched_dets),
         !.events = c.events \o MatchEvents(3, c.lost, rest, m.matches)] :
        m \in Match(BoxesOfTracks(c.tracks, c.lost), BoxesOfDets(dets, rest), 3)}

\* new_track = Track(track_id=self.next_id, ..., state=NEW); new_track.hits = 1
SpawnTrack(id, d) ==
  [MakeTrack(id, d.bbox, d.confidence, d.frame_id, New) EXCEPT !.hits = 1]

\* update never advancing next_id
NextIdStuck(id, created) == id

\* self.next_id += 1, once per created track
NextIdAfter(id, created) == id + created

\* a track for every remaining high-confidence detection, appended to
\* tracked_tracks; c.unmatched_dets_stage1 holds their positions in high
CreateTracks(c, dets) ==
  LET rem == c.unmatched_dets_stage1
      n == Len(rem)
      base == Len(c.tracks)
  IN [c EXCEPT
        !.tracks = c.tracks
                   \o [j \in 1..n |->
                         SpawnTrack(NextIdAfter(c.next_id, j - 1),
                                    dets[c.high[rem[j]]])],
        !.tracked = c.tracked \o [j \in 1..n |-> base + j],
        !.next_id = NextIdAfter(c.next_id, n),
        !.events = c.events
                   \o [j \in 1..n |->
                         [stage |-> 0, track |-> base + j, det |-> c.high[rem[j]]]]]

RECURSIVE MissLoop(_, _)
\* "for track in unmatched_confirmed_final: track.mark_missed(); ..."
MissLoop(c, oids) ==
  IF oids = <<>> THEN c
  ELSE LET o == Head(oids)
           t == MarkMissed(c.tracks[o])
           c1 == [c EXCEPT !.tracks[o] = t]
       IN MissLoop(IF t.state = Removed
                   THEN [c1 EXCEPT !.removed = Append(c.removed, o)]
                   ELSE [c1 EXCEPT !.lost = Append(c.lost, o)],
                   Tail(oids))

RECURSIVE PurgeLoop(_, _)
\* "for track in self.lost_tracks: if track.time_since_update >
\* self.track_buffer: track.state = REMOVED; removed_tracks.append(track)"
PurgeLoop(c, oids) ==
  IF oids = <<>> THEN c
  ELSE LET o == Head(oids)
       IN PurgeLoop(IF c.tracks[o].time_since_update > TrackBuffer
                    THEN [c EXCEPT !.tracks[o].state = Removed,
                                   !.removed = Append(c.removed, o)]
                    ELSE c,
                    Tail(oids))

\* the rest of update after the new tracks: missed tracks, the filters of
\* tracked_tracks and lost_tracks, the purge
Retire(c) ==
  LET c1 == MissLoop(c, c.unmatched_confirmed)
      c2 == [c1 EXCEPT
               !.tracked = SelectSeq(c1.tracked,
                                     LAMBDA o : IsActive(c1.tracks[o])),
               !.lost = SelectSeq(c1.lost,
                                  LAMBDA o : c1.tracks[o].state # Removed)]
      c3 == PurgeLoop(c2, c2.lost)
  IN [c3 EXCEPT
        !.lost = SelectSeq(c3.lost, LAMBDA o : c3.tracks[o].state # Removed)]

\* return [t for t in self.tracked_tracks if t.state == TrackState.TRACKED]
ActiveTracks(store, tracked) ==
  SelectSeq(tracked, LAMBDA o : store[o].state = Tracked)

\* every outcome of update(dets) from tracker fields T
UpdateOutcomes(T, dets) ==
  UNION {UNION {{Retire(CreateTracks(c3, dets)) : c3 \in Stage3(c2, dets)} :
                  c2 \in Stage2(c1, dets)} :
           c1 \in Stage1(T, dets)}

(***************************************************************************)
(* TrackletGenerator (tracklet_generator.py 103-482)                       *)
(***************************************************************************)
\* the frame handed to process_frame is FrameWidth x FrameHeight pixels
FrameWidth == 640
FrameHeight == 480

\* x1, y1 = max(0, x1), max(0, y1); x2, y2 = min(frame.shape[1], x2), ...
CropBox(bbox) ==
  <<Max(0, bbox[1]), Max(0, bbox[2]),
    Min(FrameWidth, bbox[3]), Min(FrameHeight, bbox[4])>>

\* "if x2 <= x1 or y2 <= y1: continue"
InvalidCrop(crop) == crop[3] <= crop[1] \/ crop[4] <= crop[2]

\* "extract_embeddings: bool = True" of TrackletGenerator.__init__
ExtractEmbeddings == TRUE

EmptyAppearance ==
  [outfits |-> <<>>, embeddings |-> <<>>, crops |-> <<>>, frame_ids |-> <<>>,
   timestamps |-> <<>>, bboxes |-> <<>>]

\* the OutfitDescriptor objects of GarmentAnalyzer.analyze
\* (garment_analyzer.py 32-39): top, bottom, shoes, overall_quality and
\* segmentation_method, and no attribute visual_embedding
Outfits == {[top |-> "shirt"]}
\* what garment_analyzer.analyze(person_crop) can do: return an outfit,
\* <<outfit>>, or raise ValueError, <<>>
AnalyzeReturns == {<<o>> : o \in Outfits}
AnalyzeOutcomes == AnalyzeReturns \cup {<<>>}

\* the vectors of the embedding extractor, L2-normalized: the unit vectors
\* of the plane along the axes
UnitVectors == {<<1, 0>>, <<-1, 0>>, <<0, 1>>}
\* the outfits of an analyzer that attaches the embedding of the crop as
\* visual_embedding, or None, <<>>, when it extracted none
EmbeddedOutfits ==
  {[top |-> "shirt", visual_embedding |-> v] : v \in UnitVectors \cup {<<>>}}
EmbeddingReturns == {<<o>> : o \in EmbeddedOutfits}

\* "outfit.visual_embedding" raises AttributeError on an object without the
\* attribute
HasEmbedding(outfit) == "visual_embedding" \in DOMAIN outfit

\* the try block of a sample ends in its except branch: analyze raised, or
\* the read of outfit.visual_embedding did
Raised(out) == out = <<>> \/ ~HasEmbedding(out[1])

\* the sampling test: no crop cached yet, or 3 frames since the last sample
DueForSample(entry, fid) ==
  Len(entry.crops) = 0
  \/ fid - entry.frame_ids[Len(entry.frame_ids)] >= SampleStride

\* the appends of a sample that analyze returned: outfits first, and the
\* others when the read of outfit.visual_embedding did not raise
StoreSample(entry, outfit, crop, fid, timestamp, bbox) ==
  LET e == [entry EXCEPT !.outfits = Append(@, outfit)]
  IN IF ~HasEmbedding(outfit) THEN e
     ELSE [e EXCEPT
             !.embeddings = IF outfit.visual_embedding # <<>>
                            THEN Append(@, outfit.visual_embedding)
                            ELSE @,
             !.crops = Append(@, crop),
             !.frame_ids = Append(@, fid),
             !.timestamps = Append(@, timestamp),
             !.bboxes = Append(@, bbox)]

\* the cache with the entry of track_id, created empty when missing
WithEntry(cache, id) ==
  IF id \in DOMAIN cache THEN cache
  ELSE [k \in DOMAIN cache \cup {id} |->
          IF k = id THEN EmptyAppearance ELSE cache[k]]

WithoutEntry(cache, id) == [k \in DOMAIN cache \ {id} |-> cache[k]]

\* the body of "for track in active_tracks" for one track, one result per
\* outcome of analyze among outcomes.  s holds the cache, the track ids
\* analyze was called for in this frame and those whose sample raised.
SampleTrack(s, t, fid, timestamp, outcomes) ==
  LET crop == CropBox(t.bbox)
      c1 == WithEntry(s.cache, t.track_id)
      entry == c1[t.track_id]
  IN IF InvalidCrop(crop) THEN {s}
     ELSE IF ~DueForSample(entry, fid) THEN {[s EXCEPT !.cache = c1]}
     ELSE {[cache |-> IF out = <<>> THEN c1
                      ELSE [c1 EXCEPT ![t.track_id] =
                              StoreSample(entry, out[1], crop, fid, timestamp,
                                          t.bbox)],
            analyzed |-> Append(s.analyzed, t.track_id),
            failed |-> IF Raised(out) THEN Append(s.failed, t.track_id)
                       ELSE s.failed] :
             out \in outcomes}

RECURSIVE SampleLoop(_, _, _, _, _, _)
SampleLoop(s, store, oids, fid, timestamp, outcomes) ==
  IF oids = <<>> THEN {s}
  ELSE UNION {SampleLoop(s1, store, Tail(oids), fid, timestamp, outcomes) :
                s1 \in SampleTrack(s, store[Head(oids)], fid, timestamp,
                                   outcomes)}

RECURSIVE SumSeq(_)
\* the sum of a list of numbers
SumSeq(seq) == IF seq = <<>> THEN 0 ELSE Head(seq) + SumSeq(Tail(seq))

\* a fraction <<numerator, denominator>> in lowest terms
Reduced(q) ==
  LET g == Gcd(q[1], q[2])
  IN IF g = 0 THEN <<0, 1>> ELSE <<q[1] \div g, q[2] \div g>>

\* Track.average_confidence, a fraction of 1: the mean of confidence_history
\* (confidences are in percent), 0.0 when the history is empty
AverageConfidence(t) ==
  IF t.confidence_history = <<>> THEN <<0, 1>>
  ELSE Reduced(<<SumSeq(t.confidence_history),
                 100 * Len(t.confidence_history)>>)

\* the weights of obs_score and stability_score taken for each other
SwappedWeights(t, a) ==
  LET obs == Min(10, Len(a.outfits))
      conf == AverageConfidence(t)
      age == Max(1, t.age)
  IN Reduced(<<2 * obs * conf[2] * age + 40 * conf[1] * age
                 + 40 * t.hits * conf[2],
               100 * conf[2] * age>>)

\* "quality = 0.4 * obs_score + 0.4 * conf_score + 0.2 * stability_score",
\* as a fraction: obs_score = min(1.0, len(outfits) / 10.0), conf_score =
\* track.average_confidence, stability_score = hits / max(1, age).  The
\* floats of the code are kept as exact fractions.
WeightedQuality(t, a) ==
  LET obs == Min(10, Len(a.outfits))
      conf == AverageConfidence(t)
      age == Max(1, t.age)
  IN Reduced(<<4 * obs * conf[2] * age + 40 * conf[1] * age
                 + 20 * t.hits * conf[2],
               100 * conf[2] * age>>)

\* np.clip without its bounds
Unclipped(q) == q

\* np.clip(quality, 0.0, 1.0)
Clip(q) ==
  IF q[1] < 0 THEN <<0, 1>> ELSE IF q[1] > q[2] THEN <<1, 1>> ELSE q

\* _calculate_quality(track, appearance_data)
CalculateQuality(t, a) == Clip(WeightedQuality(t, a))

\* _create_tracklet asking for no observation at all
NeverTooFew(a) == FALSE

\* "if len(appearance_data["outfits"]) < 2: return None"
TooFewObservations(a) == Len(a.outfits) < MinObservations

\* _create_tracklet(track, current_timestamp): <<>> for None, or <<Tracklet>>.
\* source and sample_frames are history: the Track object the Tracklet was
\* built from and the frames its samples were taken at.
\* the sum of two fractions
AddFraction(p, q) == Reduced(<<p[1] * q[2] + q[1] * p[2], p[2] * q[2]>>)

RECURSIVE SumFractions(_)
SumFractions(qs) ==
  IF qs = <<>> THEN <<0, 1>>
  ELSE AddFraction(Head(qs), SumFractions(Tail(qs)))

\* the w / h of the boxes with h > 0, in order
AspectRatios(bboxes) ==
  LET tall == SelectSeq(bboxes, LAMBDA b : b[4] - b[2] > 0)
  IN [i \in DOMAIN tall |->
        Reduced(<<tall[i][3] - tall[i][1], tall[i][4] - tall[i][2]>>)]

\* np.mean(aspect_ratios) if aspect_ratios else 0.5
MeanAspectRatio(bboxes) ==
  LET ratios == AspectRatios(bboxes)
      total == SumFractions(ratios)
  IN IF ratios = <<>> THEN <<1, 2>>
     ELSE Reduced(<<total[1], total[2] * Len(ratios)>>)

\* heights = [bbox[3] - bbox[1] for bbox in bboxes]
Heights(bboxes) == [i \in DOMAIN bboxes |-> bboxes[i][4] - bboxes[i][2]]

\* _estimate_physique with "avg_height <= 100" for short
EstimatePhysiqueInclusive(bboxes) ==
  IF bboxes = <<>>
  THEN [height_category |-> "medium", aspect_ratio |-> <<1, 2>>]
  ELSE [height_category |->
          IF SumSeq(Heights(bboxes)) <= 100 * Len(bboxes) THEN "short"
          ELSE IF SumSeq(Heights(bboxes)) > 200 * Len(bboxes) THEN "tall"
          ELSE "medium",
        aspect_ratio |-> MeanAspectRatio(bboxes)]

\* _estimate_physique: avg_height = np.mean(heights) is compared with 100
\* and 200 as sum(heights) with 100 * n and 200 * n
EstimatePhysique(bboxes) ==
  IF bboxes = <<>>
  THEN [height_category |-> "medium", aspect_ratio |-> <<1, 2>>]
  ELSE [height_category |->
          IF SumSeq(Heights(bboxes)) < 100 * Len(bboxes) THEN "short"
          ELSE IF SumSeq(Heights(bboxes)) > 200 * Len(bboxes) THEN "tall"
          ELSE "medium",
        aspect_ratio |-> MeanAspectRatio(bboxes)]

\* how often v occurs in values
Occurrences(values, v) == Cardinality({i \in DOMAIN values : values[i] = v})

\* where v occurs first in values
FirstAt(values, v) == CHOOSE i \in DOMAIN values :
                        values[i] = v /\ \A j \in 1..(i - 1) : values[j] # v

\* the most frequent value, a tie going to the one that occurs last
MostCommonLatest(values) ==
  IF values = <<>> THEN "unknown"
  ELSE CHOOSE v \in Range(values) :
         \A w \in Range(values) :
           \/ Occurrences(values, w) < Occurrences(values, v)
           \/ /\ Occurrences(values, w) = Occurrences(values, v)
              /\ FirstAt(values, w) <= FirstAt(values, v)

\* "Counter(values).most_common(1)[0][0] if values else 'unknown'": the
\* Counter keeps its keys in the order they were first counted and
\* most_common(1) takes the first key of the greatest count
MostCommon(values) ==
  IF values = <<>> THEN "unknown"
  ELSE CHOOSE v \in Range(values) :
         \A w \in Range(values) :
           \/ Occurrences(values, w) < Occurrences(values, v)
           \/ /\ Occurrences(values, w) = Occurrences(values, v)
              /\ FirstAt(values, v) <= FirstAt(values, w)

\* [o.<part>.<field> for o in outfits if o.<part>]; analyze always fills
\* the three garments of an outfit
FieldValues(outfits, part, field) ==
  [i \in DOMAIN outfits |-> outfits[i][part][field]]

\* _aggregate_outfits: the first outfit of the list, its three garments
\* given the most common type and the most common color
AggregateOutfits(outfits) ==
  [outfits[1] EXCEPT
     !.top.type = MostCommon(FieldValues(outfits, "top", "type")),
     !.top.color = MostCommon(FieldValues(outfits, "top", "color")),
     !.bottom.type = MostCommon(FieldValues(outfits, "bottom", "type")),
     !.bottom.color = MostCommon(FieldValues(outfits, "bottom", "color")),
     !.shoes.type = MostCommon(FieldValues(outfits, "shoes", "type")),
     !.shoes.color = MostCommon(FieldValues(outfits, "shoes", "color"))]

RECURSIVE VecSum(_)
\* the componentwise sum of a list of vectors of the plane
VecSum(vs) ==
  IF vs = <<>> THEN <<0, 0>>
  ELSE LET rest == VecSum(Tail(vs))
       IN <<Head(vs)[1] + rest[1], Head(vs)[2] + rest[2]>>

Dot(u, v) == u[1] * v[1] + u[2] * v[2]

\* A vector with real components is [nums, den2], standing for
\* nums / sqrt(den2); den2 = 0 stands for the vector of NaNs that numpy
\* gives for a division of zeros by zero.
\* np.mean(embeddings, axis=0): the sum over the number of vectors
MeanEmbedding(embeddings) ==
  [nums |-> VecSum(embeddings), den2 |-> Len(embeddings) * Len(embeddings)]

\* "visual_embedding / np.linalg.norm(visual_embedding)": the norm of
\* nums / sqrt(den2) is sqrt(nums . nums / den2), the quotient is
\* nums / sqrt(nums . nums)
Renormalized(v) == [nums |-> v.nums, den2 |-> Dot(v.nums, v.nums)]

\* the visual_embedding of a Tracklet: <<>> is None
AggregateEmbedding(embeddings) ==
  IF ExtractEmbeddings /\ embeddings # <<>>
  THEN <<Renormalized(MeanEmbedding(embeddings))>>
  ELSE <<>>

CreateTracklet(cache, o, t, current_timestamp) ==
  IF t.track_id \notin DOMAIN cache THEN <<>>
  ELSE LET a == cache[t.track_id]
       IN IF TooFewObservations(a) THEN <<>>
          ELSE LET t_in == IF a.timestamps # <<>> THEN a.timestamps[1]
                           ELSE current_timestamp
                   t_out == IF a.timestamps # <<>>
                            THEN a.timestamps[Len(a.timestamps)]
                            ELSE current_timestamp
               IN <<[track_id |-> t.track_id,
                   t_in |-> t_in,
                   t_out |-> t_out,
                   duration_seconds |-> t_out - t_in,
                   bbox_sequence |-> t.bbox_history,
                   frame_sequence |-> t.frame_history,
                   confidence |-> AverageConfidence(t),
                   quality |-> CalculateQuality(t, a),
                   visual_embedding |-> AggregateEmbedding(a.embeddings),
                   height_category |->
                     EstimatePhysique(a.bboxes).height_category,
                   aspect_ratio |-> EstimatePhysique(a.bboxes).aspect_ratio,
                   num_observations |-> Len(a.outfits),
                   source |-> o,
                   sample_frames |-> a.frame_ids]>>

\* Tracklet.to_dict: <<>> is the AttributeError of
\* "self.visual_embedding.tolist()" on None, <<d>> the dict returned
ToDict(tl) ==
  IF tl.visual_embedding = <<>> THEN <<>>
  ELSE <<[track_id |-> tl.track_id,
          t_in |-> tl.t_in,
          t_out |-> tl.t_out,
          duration_seconds |-> tl.duration_seconds,
          visual_embedding |-> tl.visual_embedding[1],
          height_category |-> tl.height_category,
          aspect_ratio |-> tl.aspect_ratio,
          confidence |-> tl.confidence,
          quality |-> tl.quality,
          num_observations |-> tl.num_observations]>>

RECURSIVE FinalizeRemoved(_, _, _, _)
\* process_frame step 4: "for track in self.tracker.removed_tracks"
FinalizeRemoved(g, store, oids, timestamp) ==
  IF oids = <<>> THEN g
  ELSE LET o == Head(oids)
           t == store[o]
           tl == CreateTracklet(g.cache, o, t, timestamp)
       IN FinalizeRemoved(
            IF t.track_id \in DOMAIN g.cache
            THEN [cache |-> WithoutEntry(g.cache, t.track_id),
                  completed |-> g.completed \o tl]
            ELSE g,
            store, Tail(oids), timestamp)

RECURSIVE ForceLoop(_, _, _)
\* finalize_all_tracks: "for track in all_tracks: track.state = REMOVED;
\* tracklet = self._create_tracklet(track, timestamp); ..."
ForceLoop(f, oids, timestamp) ==
  IF oids = <<>> THEN f
  ELSE LET o == Head(oids)
           t == [f.tracks[o] EXCEPT !.state = Removed]
           tl == CreateTracklet(f.cache, o, t, timestamp)
       IN ForceLoop([f EXCEPT
                       !.tracks[o] = t,
                       !.completed = f.completed \o tl],
                    Tail(oids), timestamp)

\* ByteTracker.get_all_tracks(): tracked_tracks + lost_tracks
AllTracks(tracked, lost) == tracked \o lost

\* ByteTracker.reset(): the value next_id takes
ResetNextId == 1
\* ByteTracker.reset(): the value frame_id takes
ResetFrameId == 0

(***************************************************************************)
(* Inputs                                                                  *)
(***************************************************************************)
\* a person-sized box, 100 x 200
BoxA == <<0, 0, 100, 200>>
\* the same size two steps to the right: IoU 3/7 with BoxA, which is below
\* the threshold of stage 1 and above those of stages 2 and 3
BoxC == <<40, 0, 140, 200>>

\* <<box, confidence>> of the detections a frame can hold
DetPool == {<<BoxA, 80>>, <<BoxC, 80>>, <<BoxA, 50>>}

\* the detection lists of frame fid: up to MaxDets detections of the pool
Frames(fid) ==
  UNION {{[i \in 1..n |-> Detection(f[i][1], f[i][2], fid)] :
            f \in [1..n -> DetPool]} : n \in 0..MaxDets}

\* the frames of the scenarios: one person, detected at BoxA with
\* confidence 0.8, or nobody
PersonFrames(fid) == {<<>>, <<Detection(BoxA, 80, fid)>>}

RECURSIVE Runs(_)
\* the number of stretches of presence and of absence in a list of frames,
\* each TRUE when the detector found somebody in it
Runs(seen) ==
  IF Len(seen) <= 1 THEN Len(seen)
  ELSE LET n == Len(seen)
           front == SubSeq(seen, 1, n - 1)
       IN Runs(front) + (IF seen[n] = seen[n - 1] THEN 0 ELSE 1)

(***************************************************************************)
(* Actions                                                                 *)
(***************************************************************************)
\* the history of a call: its name, its detections, the Track.update calls
\* (stage 1, 2, 3) and Track constructions (stage 0) it made, the tracker
\* and the appearance cache as they were before the call, for each frame so
\* far whether the detector found somebody in it, the number of
\* finalize_all_tracks calls so far, the track ids analyze was called for
\* and those whose sample raised
Call(op, dets, events, seen, flushes, analyzed, failed) ==
  [op |-> op, dets |-> dets, events |-> events, before |-> Tracker,
   cache |-> track_appearances, seen |-> seen, flushes |-> flushes,
   analyzed |-> analyzed, failed |-> failed, value |-> <<>>]

NoCall ==
  [op |-> "init", dets |-> <<>>, events |-> <<>>,
   before |-> [tracks |-> <<>>, tracked |-> <<>>, lost |-> <<>>,
               removed |-> <<>>, next_id |-> 1, frame_id |-> 0],
   cache |-> <<>>, seen |-> <<>>, flushes |-> 0, analyzed |-> <<>>,
   failed |-> <<>>, value |-> <<>>]

\* ByteTracker.__init__ and TrackletGenerator.__init__
Init ==
  /\ tracks = <<>>
  /\ tracked_tracks = <<>>
  /\ lost_tracks = <<>>
  /\ removed_tracks = <<>>
  /\ next_id = 1
  /\ frame_id = 0
  /\ track_appearances = <<>>
  /\ completed_tracklets = <<>>
  /\ frame_count = 0
  /\ clock = 0
  /\ last = NoCall

\* generator.process_frame(frame, timestamp, frame_id), the detector
\* returning dets and analyze ending in one of outcomes
DoProcessFrame(dets, fid, timestamp, outcomes) ==
  \E r \in UpdateOutcomes(Tracker, dets) :
    \E s \in SampleLoop([cache |-> track_appearances, analyzed |-> <<>>,
                         failed |-> <<>>],
                        r.tracks, ActiveTracks(r.tracks, r.tracked), fid,
                        timestamp, outcomes) :
      LET g == FinalizeRemoved([cache |-> s.cache,
                                completed |-> completed_tracklets],
                               r.tracks, r.removed, timestamp)
      IN /\ tracks' = r.tracks
         /\ tracked_tracks' = r.tracked
         /\ lost_tracks' = r.lost
         /\ removed_tracks' = <<>>
         /\ next_id' = r.next_id
         /\ frame_id' = r.frame_id
         /\ track_appearances' = g.cache
         /\ completed_tracklets' = g.completed
         /\ frame_count' = frame_count + 1
         /\ clock' = clock + 1
         /\ last' = Call("process_frame", dets, r.events,
                         Append(last.seen, dets # <<>>), last.flushes,
                         s.analyzed, s.failed)

\* finalize_all_tracks leaving everything as its loop left it
KeepAll(s) == s

\* finalize_all_tracks without "self.track_appearances.clear()"
ResetTrackerOnly(s) ==
  [s EXCEPT !.tracked = <<>>, !.lost = <<>>, !.removed = <<>>,
            !.next_id = ResetNextId, !.frame_id = ResetFrameId]

\* finalize_all_tracks without "self.tracker.reset()"
ClearCacheOnly(s) == [s EXCEPT !.cache = <<>>]

\* "self.track_appearances.clear(); self.tracker.reset()" on s, the cache
\* and the fields of the tracker
ClearAll(s) ==
  [s EXCEPT !.cache = <<>>, !.tracked = <<>>, !.lost = <<>>,
            !.removed = <<>>, !.next_id = ResetNextId,
            !.frame_id = ResetFrameId]

\* generator.finalize_all_tracks(timestamp)
DoFinalizeAll(timestamp) ==
  LET f == ForceLoop([tracks |-> tracks, cache |-> track_appearances,
                      completed |-> completed_tracklets],
                     AllTracks(tracked_tracks, lost_tracks), timestamp)
      c == ClearAll([cache |-> f.cache, tracked |-> tracked_tracks,
                     lost |-> lost_tracks, removed |-> removed_tracks,
                     next_id |-> next_id, frame_id |-> frame_id])
  IN /\ tracks' = f.tracks
     /\ completed_tracklets' = f.completed
     /\ track_appearances' = c.cache
     /\ tracked_tracks' = c.tracked
     /\ lost_tracks' = c.lost
     /\ removed_tracks' = c.removed
     /\ next_id' = c.next_id
     /\ frame_id' = c.frame_id
     /\ last' = Call("finalize_all_tracks", <<>>, <<>>, last.seen,
                     last.flushes + 1, <<>>, <<>>)
     /\ UNCHANGED <<frame_count, clock>>

\* frame clock + 1 arrives with timestamp clock + 1 (1 FPS); the run stays
\* within MaxFrames frames and MaxTracks Track objects, and analyze returns
ProcessFrame ==
  \E dets \in Frames(clock + 1) :
    /\ Len(last.seen) < MaxFrames
    /\ Len(tracks) + Len(HighDets(dets)) <= MaxTracks
    /\ DoProcessFrame(dets, clock + 1, clock + 1, AnalyzeReturns)

\* a frame of a scenario: the person is there or not, analyze returns or
\* raises; the stream ends with finalize_all_tracks
PersonFrame ==
  \E dets \in PersonFrames(clock + 1) :
    /\ Len(last.seen) < MaxScenarioFrames
    /\ Runs(Append(last.seen, dets # <<>>)) <= MaxRuns
    /\ last.flushes = 0
    /\ DoProcessFrame(dets, clock + 1, clock + 1, AnalyzeOutcomes)

\* the flush, at most MaxFlushes times in a run
FinalizeAll ==
  /\ last.flushes < MaxFlushes
  /\ DoFinalizeAll(clock)

Next == ProcessFrame \/ FinalizeAll

\* the tracker and the generator from their construction
Spec == Init /\ [][Next]_vars

NextScenario == PersonFrame \/ FinalizeAll

\* the scenarios of one person, from construction
SpecScenario == Init /\ [][NextScenario]_vars

(***************************************************************************)
(* The tracker holding confirmed tracks.  A confirmed track is a Track on  *)
(* which Track.update was called until hits reached 3: the state the       *)
(* tracker is designed to be in once a person was matched in three         *)
(* frames.  update itself matches Tracked and Lost tracks only and never   *)
(* a New one, so Spec, which starts from the constructor, never leaves     *)
(* state New; the stages of update, Track.mark_missed, the sampling and    *)
(* the assembly of Tracklets are exercised from here.                      *)
(***************************************************************************)
\* the Track of a person seen at bbox with confidence 0.8 in frames 1, 2, 3
ConfirmedTrack(id, bbox) ==
  TrackUpdate(TrackUpdate(SpawnTrack(id, Detection(bbox, 80, 1)),
                          Detection(bbox, 80, 2)),
              Detection(bbox, 80, 3))

\* the Track objects the tracker holds at the start: one person, or two
ConfirmedStarts ==
  {<<ConfirmedTrack(1, BoxA)>>,
   <<ConfirmedTrack(1, BoxA), ConfirmedTrack(2, BoxC)>>}

InitHolding(start) ==
  /\ tracks = start
  /\ tracked_tracks = [i \in 1..Len(start) |-> i]
  /\ lost_tracks = <<>>
  /\ removed_tracks = <<>>
  /\ next_id = Len(start) + 1
  /\ frame_id = ConfirmHits
  /\ track_appearances = <<>>
  /\ completed_tracklets = <<>>
  /\ frame_count = ConfirmHits
  /\ clock = ConfirmHits
  /\ last = [NoCall EXCEPT
               !.before = [tracks |-> start,
                           tracked |-> [i \in 1..Len(start) |-> i],
                           lost |-> <<>>, removed |-> <<>>,
                           next_id |-> Len(start) + 1,
                           frame_id |-> ConfirmHits]]

InitConfirmed == \E start \in ConfirmedStarts : InitHolding(start)

\* any frames, a few of them, on confirmed tracks
SpecConfirmed == InitConfirmed /\ [][Next]_vars

(***************************************************************************)
(* One Track and the calls made on it: Track.update, Track.mark_missed     *)
(* and the assignment "track.state = TrackState.REMOVED" of                *)
(* finalize_all_tracks.  The track is tracks[1], built the way update      *)
(* builds one.                                                             *)
(***************************************************************************)
\* the detections handed to Track.update
TrackDets == {Detection(BoxA, 80, 1), Detection(BoxC, 50, 2)}

InitTrack ==
  /\ tracks = <<SpawnTrack(1, Detection(BoxA, 80, 1))>>
  /\ tracked_tracks = <<>>
  /\ lost_tracks = <<>>
  /\ removed_tracks = <<>>
  /\ next_id = 2
  /\ frame_id = 1
  /\ track_appearances = <<>>
  /\ completed_tracklets = <<>>
  /\ frame_count = 0
  /\ clock = 0
  /\ last = NoCall

OnTrack(op, dets, events, t) ==
  /\ tracks' = <<t>>
  /\ last' = Call(op, dets, events, <<>>, 0, <<>>, <<>>)
  /\ UNCHANGED <<tracked_tracks, lost_tracks, removed_tracks, next_id,
                 frame_id, track_appearances, completed_tracklets,
                 frame_count, clock>>

CallUpdate ==
  \E d \in TrackDets :
    /\ tracks[1].hits < MaxHits
    /\ OnTrack("Track.update", <<d>>,
               <<[stage |-> 1, track |-> 1, det |-> 1]>>,
               TrackUpdate(tracks[1], d))

CallMarkMissed ==
  /\ tracks[1].age < MaxAge
  /\ OnTrack("Track.mark_missed", <<>>, <<>>, MarkMissed(tracks[1]))

ForceRemoved ==
  /\ tracks[1].state # Removed
  /\ OnTrack("force", <<>>, <<>>, [tracks[1] EXCEPT !.state = Removed])

NextTrack == CallUpdate \/ CallMarkMissed \/ ForceRemoved

SpecTrack == InitTrack /\ [][NextTrack]_vars

(***************************************************************************)
(* One Track followed over more than 30 matches: a person walking to the   *)
(* right, the detection of frame f handed to Track.update as the f-th      *)
(* observation of the track.                                               *)
(***************************************************************************)
\* the detection of the person in frame f
ObservationAt(f) == Detection(<<f, 0, 100 + f, 200>>, 50 + f, f)

InitHistory ==
  /\ tracks = <<SpawnTrack(1, ObservationAt(1))>>
  /\ tracked_tracks = <<>>
  /\ lost_tracks = <<>>
  /\ removed_tracks = <<>>
  /\ next_id = 2
  /\ frame_id = 1
  /\ track_appearances = <<>>
  /\ completed_tracklets = <<>>
  /\ frame_count = 0
  /\ clock = 0
  /\ last = NoCall

CallUpdateNext ==
  /\ tracks[1].hits <= MaxUpdates
  /\ OnTrack("Track.update", <<ObservationAt(tracks[1].hits + 1)>>,
             <<[stage |-> 1, track |-> 1, det |-> 1]>>,
             TrackUpdate(tracks[1], ObservationAt(tracks[1].hits + 1)))

NextHistory == CallUpdateNext \/ CallMarkMissed

SpecHistory == InitHistory /\ [][NextHistory]_vars

(***************************************************************************)
(* One confirmed person over a longer stretch of frames: in each frame the *)
(* detector finds nobody, the person where it was (sure of it or not), the *)
(* person shifted by 40 pixels (IoU 3/7), that and a box of 9 x 11 pixels, *)
(* below min_box_area, or the person shifted by 60 pixels (IoU 1/4, sure   *)
(* of it or not).  Long enough for four missed frames in a row.            *)
(***************************************************************************)
BoxTiny == <<0, 0, 9, 11>>
BoxD == <<60, 0, 160, 200>>

LongFrames(fid) ==
  {<<>>, <<Detection(BoxA, 80, fid)>>, <<Detection(BoxA, 50, fid)>>,
   <<Detection(BoxC, 80, fid)>>,
   <<Detection(BoxTiny, 80, fid), Detection(BoxC, 80, fid)>>,
   <<Detection(BoxD, 80, fid)>>, <<Detection(BoxD, 50, fid)>>}

LongFrame ==
  \E dets \in LongFrames(clock + 1) :
    /\ Len(last.seen) < MaxLongFrames
    /\ last.flushes = 0
    /\ DoProcessFrame(dets, clock + 1, clock + 1, AnalyzeReturns)

NextLong == LongFrame \/ FinalizeAll

SpecLong == InitHolding(<<ConfirmedTrack(1, BoxA)>>) /\ [][NextLong]_vars

(***************************************************************************)
(* One confirmed person who is gone for four frames, so that the track is  *)
(* Lost, and the frames after that: nobody, the person back where it was   *)
(* with confidence 0.8, 0.5 or exactly track_thresh, the person together   *)
(* with a box of 9 x 11 pixels (area 99), or a box of 10 x 10 pixels (area *)
(* exactly min_box_area).                                                  *)
(***************************************************************************)
BoxMin == <<200, 0, 210, 10>>

ReturnFrames(fid) ==
  {<<>>, <<Detection(BoxA, 80, fid)>>, <<Detection(BoxA, 50, fid)>>,
   <<Detection(BoxA, TrackThresh, fid)>>,
   <<Detection(BoxTiny, 50, fid), Detection(BoxA, 80, fid)>>,
   <<Detection(BoxTiny, 80, fid), Detection(BoxA, 50, fid)>>,
   <<Detection(BoxMin, 80, fid)>>}

\* the frames of the gap are empty, the others are any of ReturnFrames
ReturnFrame ==
  \E dets \in ReturnFrames(clock + 1) :
    /\ Len(last.seen) < LostAfter + 1 + MaxReturnFrames
    /\ Len(last.seen) < LostAfter + 1 => dets = <<>>
    /\ last.flushes = 0
    /\ DoProcessFrame(dets, clock + 1, clock + 1, AnalyzeReturns)

NextLost == ReturnFrame \/ FinalizeAll

SpecLost == InitHolding(<<ConfirmedTrack(1, BoxA)>>) /\ [][NextLost]_vars

(***************************************************************************)
(* The generator with an analyzer whose outfits carry visual_embedding,    *)
(* following one confirmed person: sampled in frame 4 and again in frame   *)
(* 7, when the person is still matched, then flushed.                      *)
(***************************************************************************)
EmbeddingFrame ==
  \E dets \in PersonFrames(clock + 1) :
    /\ Len(last.seen) < MaxEmbeddingFrames
    /\ last.flushes = 0
    /\ DoProcessFrame(dets, clock + 1, clock + 1, EmbeddingReturns)

NextEmbedding == EmbeddingFrame \/ FinalizeAll

SpecEmbedding ==
  InitHolding(<<ConfirmedTrack(1, BoxA)>>) /\ [][NextEmbedding]_vars

(***************************************************************************)
(* The same generator, whose completed Tracklets are serialized after a    *)
(* flush.                                                                  *)
(***************************************************************************)
\* [tl.to_dict() for tl in completed_tracklets], each call on its own
Serialize ==
  /\ last.op = "finalize_all_tracks"
  /\ completed_tracklets # <<>>
  /\ last' = [last EXCEPT
                !.op = "to_dict",
                !.value = [k \in DOMAIN completed_tracklets |->
                             ToDict(completed_tracklets[k])]]
  /\ UNCHANGED <<tracks, tracked_tracks, lost_tracks, removed_tracks,
                 next_id, frame_id, track_appearances, completed_tracklets,
                 frame_count, clock>>

NextSerialize == EmbeddingFrame \/ FinalizeAll \/ Serialize

SpecSerialize ==
  InitHolding(<<ConfirmedTrack(1, BoxA)>>) /\ [][NextSerialize]_vars

(***************************************************************************)
(* _aggregate_outfits on its own: the entry of track 1 holds a list of at  *)
(* least two sampled outfits, as _create_tracklet requires, and the list   *)
(* is aggregated, and aggregated again as a second finalization of the     *)
(* same track does.  The outfit returned is the first object of the list,  *)
(* modified in place: the list in the cache changes with it.               *)
(***************************************************************************)
Garment(type, color) == [type |-> type, color |-> color]

SampledOutfits ==
  {[top |-> Garment("shirt", "blue"), bottom |-> Garment("jeans", "black"),
    shoes |-> Garment("boots", "brown")],
   [top |-> Garment("shirt", "red"), bottom |-> Garment("shorts", "black"),
    shoes |-> Garment("sneakers", "white")],
   [top |-> Garment("jacket", "red"), bottom |-> Garment("shorts", "blue"),
    shoes |-> Garment("boots", "white")],
   [top |-> Garment("jacket", "blue"), bottom |-> Garment("jeans", "blue"),
    shoes |-> Garment("sneakers", "brown")]}

OutfitLists ==
  UNION {[1..n -> SampledOutfits] : n \in MinObservations..MaxOutfitSamples}

InitAggregate ==
  /\ tracks = <<>>
  /\ tracked_tracks = <<>>
  /\ lost_tracks = <<>>
  /\ removed_tracks = <<>>
  /\ next_id = 1
  /\ frame_id = 0
  /\ \E outfits \in OutfitLists :
       track_appearances = <<[EmptyAppearance EXCEPT !.outfits = outfits]>>
  /\ completed_tracklets = <<>>
  /\ frame_count = 0
  /\ clock = 0
  /\ last = NoCall

\* outfit = self._aggregate_outfits(appearance_data["outfits"])
CallAggregate ==
  LET outfit == AggregateOutfits(track_appearances[1].outfits)
  IN /\ Len(last.value) < MaxAggregations
     /\ track_appearances' = [track_appearances EXCEPT ![1].outfits[1] = outfit]
     /\ last' = [last EXCEPT !.op = "_aggregate_outfits",
                             !.cache = track_appearances,
                             !.value = Append(@, outfit)]
     /\ UNCHANGED <<tracks, tracked_tracks, lost_tracks, removed_tracks,
                    next_id, frame_id, completed_tracklets, frame_count,
                    clock>>

NextAggregate == CallAggregate

SpecAggregate == InitAggregate /\ [][NextAggregate]_vars

(***************************************************************************)
(* _estimate_physique on its own: the entry of track 1 holds the boxes of  *)
(* its samples, none or a few, with heights around 100 and around 200.     *)
(***************************************************************************)
PhysiqueBoxes ==
  {<<0, 0, 50, h>> : h \in {99, 100, 101, 199, 200, 201}}
  \cup {<<0, 0, 100, 100>>, <<0, 0, 50, 301>>}

BoxLists == UNION {[1..n -> PhysiqueBoxes] : n \in 0..MaxBoxSamples}

InitPhysique ==
  /\ tracks = <<>>
  /\ tracked_tracks = <<>>
  /\ lost_tracks = <<>>
  /\ removed_tracks = <<>>
  /\ next_id = 1
  /\ frame_id = 0
  /\ \E bboxes \in BoxLists :
       track_appearances = <<[EmptyAppearance EXCEPT !.bboxes = bboxes]>>
  /\ completed_tracklets = <<>>
  /\ frame_count = 0
  /\ clock = 0
  /\ last = NoCall

\* self._estimate_physique(appearance_data["bboxes"])
CallEstimatePhysique ==
  /\ last.op = "init"
  /\ last' = [last EXCEPT
                !.op = "_estimate_physique",
                !.value = <<EstimatePhysique(track_appearances[1].bboxes)>>]
  /\ UNCHANGED <<tracks, tracked_tracks, lost_tracks, removed_tracks,
                 next_id, frame_id, track_appearances, completed_tracklets,
                 frame_count, clock>>

NextPhysique == CallEstimatePhysique

SpecPhysique == InitPhysique /\ [][NextPhysique]_vars

(***************************************************************************)
(* ByteTracker._iou on its own: two boxes [x1, y1, x2, y2] with x1 <= x2   *)
(* and y1 <= y2 on a small grid, boxes of area zero among them, handed to  *)
(* _iou in both orders.  The products and sums of such coordinates are     *)
(* exact in the floats of the code, so the value is the exact quotient.    *)
(***************************************************************************)
IouBoxes ==
  {b \in (0..MaxCoord) \X (0..MaxCoord) \X (0..MaxCoord) \X (0..MaxCoord) :
     b[1] <= b[3] /\ b[2] <= b[4]}

InitIou ==
  /\ tracks = <<>>
  /\ tracked_tracks = <<>>
  /\ lost_tracks = <<>>
  /\ removed_tracks = <<>>
  /\ next_id = 1
  /\ frame_id = 0
  /\ track_appearances = <<>>
  /\ completed_tracklets = <<>>
  /\ frame_count = 0
  /\ clock = 0
  /\ \E b1 \in IouBoxes, b2 \in IouBoxes :
       last = [NoCall EXCEPT !.dets = <<Detection(b1, 80, 1),
                                        Detection(b2, 80, 1)>>]

\* self._iou(bbox1, bbox2) and self._iou(bbox2, bbox1)
CallIou ==
  /\ last.op = "init"
  /\ last' = [last EXCEPT
                !.op = "_iou",
                !.value = <<Iou(last.dets[1].bbox, last.dets[2].bbox),
                            Iou(last.dets[2].bbox, last.dets[1].bbox)>>]
  /\ UNCHANGED <<tracks, tracked_tracks, lost_tracks, removed_tracks,
                 next_id, frame_id, track_appearances, completed_tracklets,
                 frame_count, clock>>

NextIou == CallIou

SpecIou == InitIou /\ [][NextIou]_vars

(***************************************************************************)
(* Properties                                                              *)
(***************************************************************************)
\* the Track.update calls of the last call, as positions in last.events
MatchCalls == {i \in DOMAIN last.events : last.events[i].stage # 0}
\* the Track constructions of the last call
Constructions == {i \in DOMAIN last.events : last.events[i].stage = 0}

C2_DetectionUsedOnce ==
  \A i, j \in DOMAIN last.events :
    last.events[i].det = last.events[j].det => i = j

\* a call that matched one detection to a track and started a track from
\* another
C2_MatchedAndStarted ==
  /\ last.op = "process_frame"
  /\ MatchCalls # {}
  /\ Constructions # {}

\* C3: a track in state New takes part in matching from the frame after
\* its creation: when the tracker holds one track, in state New, and the
\* next frame has one high-confidence detection overlapping it with IoU of
\* at least match_thresh, the detection updates that track, its hits grow
\* by one and no track is started.
C3_NewTrackMatched ==
  LET b == last.before
      o == b.tracked[1]
      d == last.dets[1]
  IN (/\ last.op = "process_frame"
      /\ Len(b.tracked) = 1
      /\ b.lost = <<>>
      /\ b.tracks[o].state = New
      /\ Len(last.dets) = 1
      /\ d.confidence >= TrackThresh
      /\ Area(d.bbox) >= MinBoxArea
      /\ MeetsThreshold(Iou(b.tracks[o].bbox, d.bbox), 1))
     => /\ tracks[o].hits = b.tracks[o].hits + 1
        /\ Constructions = {}

\* the frames so far are a frames with the person, b frames without and c
\* frames with the person again
Scenario(a, b, c) ==
  /\ Len(last.seen) = a + b + c
  /\ \A i \in 1..(a + b + c) : last.seen[i] <=> (i <= a \/ i > a + b)

\* the stream was flushed, once, at its end
Flushed == last.op = "finalize_all_tracks" /\ last.flushes = 1

\* C4: one person present for 15 consecutive frames (one detection per
\* frame, confidence 0.8, the same 100 x 200 box), processed frame by frame
\* and flushed with finalize_all_tracks, yields exactly 1 Tracklet, with
\* num_observations = 5, sampled at frames 1, 4, 7, 10 and 13.
C4_ScenarioA ==
  (Flushed /\ Scenario(15, 0, 0))
  => /\ Len(completed_tracklets) = 1
     /\ completed_tracklets[1].num_observations = 5
     /\ completed_tracklets[1].sample_frames = <<1, 4, 7, 10, 13>>

\* C5: a track matched in stage 3 is recovered: it keeps its track_id,
\* leaves the lost set, is in the live set with state Tracked, and no track
\* is started from its detection; a person detected for 5 frames, occluded
\* for 4 and detected again for 5 gives exactly 1 Tracklet.
C5_Recovery ==
  /\ \A i \in MatchCalls :
       last.events[i].stage = 3 =>
         LET o == last.events[i].track
         IN /\ tracks[o].track_id = last.before.tracks[o].track_id
            /\ o \notin Range(lost_tracks)
            /\ o \in Range(tracked_tracks)
            /\ tracks[o].state = Tracked
            /\ \A j \in Constructions : last.events[j].det # last.events[i].det
  /\ (Flushed /\ Scenario(5, 4, 5)) => Len(completed_tracklets) = 1

\* C6: a track unmatched for more than track_buffer consecutive frames is
\* in state Removed and no longer held by the tracker; a person who
\* reappears at the same place after 12 frames of occlusion starts a track
\* with another id, and the stream gives 2 Tracklets with different ids.
C6_Purged ==
  /\ last.flushes = 0 =>
       \A o \in Range(tracked_tracks) \cup Range(lost_tracks) :
         clock - tracks[o].frame_id <= TrackBuffer
  /\ (last.flushes = 0 /\ Scenario(5, 12, 1)) =>
       /\ Cardinality(Constructions) = 1
       /\ \A i \in Constructions :
            \A o \in DOMAIN last.before.tracks :
              tracks[last.events[i].track].track_id
                # last.before.tracks[o].track_id
  /\ (Flushed /\ Scenario(5, 12, 5)) =>
       /\ Len(completed_tracklets) = 2
       /\ completed_tracklets[1].track_id # completed_tracklets[2].track_id

\* Track.update was called on track o in the last call
Updated(o) == \E i \in MatchCalls : last.events[i].track = o

\* C7: once the state of a track is Removed, no operation changes it to
\* New, Tracked or Lost.
C7_RemovedIsFinal ==
  [][\A o \in DOMAIN tracks :
       tracks[o].state = Removed => tracks'[o].state = Removed]_vars

\* C8, as stated: every track that has left state New has hits >= 3.
C8_LeftNewHasHits ==
  \A o \in DOMAIN tracks :
    tracks[o].state # New => tracks[o].hits >= ConfirmHits

\* C8, amended: after Track.update on a New track the state is Tracked if
\* and only if hits >= 3, and New otherwise; no other operation makes a New
\* track Tracked.  A New track can leave New with fewer hits: Track.mark_missed
\* and finalize_all_tracks move it to Lost and Removed whatever its hits.
C8_PromotedAtThreeHits ==
  [][\A o \in DOMAIN tracks :
       tracks[o].state = New =>
         IF Updated(o)'
         THEN /\ tracks'[o].state = Tracked <=> tracks'[o].hits >= ConfirmHits
              /\ tracks'[o].state \in {New, Tracked}
         ELSE tracks'[o].state # Tracked]_vars

\* Track.update brought a New track to hits = 3 and to Tracked, after one
\* that left it New
C8_Promoted ==
  /\ last.op = "Track.update"
  /\ last.before.tracks[1].state = New
  /\ last.before.tracks[1].hits = ConfirmHits - 1
  /\ tracks[1].state = Tracked
  /\ tracks[1].hits = ConfirmHits

\* C9: a Lost track becomes Tracked only by a successful match, and every
\* successful match on a Lost track makes it Tracked, whatever its hits.
C9_LostToTracked ==
  [][\A o \in DOMAIN tracks :
       tracks[o].state = Lost =>
         (tracks'[o].state = Tracked <=> Updated(o)')]_vars

\* Track.update made a Lost track with fewer than 3 hits Tracked
C9_Recovered ==
  /\ last.op = "Track.update"
  /\ last.before.tracks[1].state = Lost
  /\ tracks[1].state = Tracked
  /\ tracks[1].hits < ConfirmHits

\* C10: without a reset, the k-th track the tracker creates has track_id k,
\* so ids start at 1, grow by one per track and are never shared.
C10_KthTrackHasIdK ==
  last.flushes = 0 => \A k \in DOMAIN tracks : tracks[k].track_id = k

\* two tracks created in one update call, after a track of an earlier call
C10_ThreeCreated ==
  /\ last.flushes = 0
  /\ last.before.tracks # <<>>
  /\ Cardinality(Constructions) = 2
  /\ Len(tracks) = 3

\* the tracks the tracker held, live or lost, before the last call
HeldBefore == Range(last.before.tracked) \cup Range(last.before.lost)

\* C11: a track_id given out by a tracker is never given out again by it,
\* also not after finalize_all_tracks or reset, so Tracklets built from
\* different tracks never share a track_id.
C11_IdNeverReused ==
  /\ \A i, j \in DOMAIN tracks :
       tracks[i].track_id = tracks[j].track_id => i = j
  /\ \A k, l \in DOMAIN completed_tracklets :
       completed_tracklets[k].track_id = completed_tracklets[l].track_id
         => completed_tracklets[k].source = completed_tracklets[l].source

C13_SecondFlushAddsNothing ==
  [][(last.op = "finalize_all_tracks" /\ last'.op = "finalize_all_tracks")
       => completed_tracklets' = completed_tracklets]_vars

\* a second flush directly after one that built a Tracklet
C13_FlushedTwice ==
  /\ last.op = "finalize_all_tracks"
  /\ last.flushes = 2
  /\ last.before.frame_id = ResetFrameId
  /\ last.before.tracked = <<>>
  /\ completed_tracklets # <<>>

\* C14: every Tracklet has num_observations >= 2; a track flushed with
\* fewer than 2 samples gives no Tracklet, and its cache entry is gone all
\* the same.
C14_MinimumObservations ==
  /\ \A k \in DOMAIN completed_tracklets :
       completed_tracklets[k].num_observations >= 2
  /\ last.op = "finalize_all_tracks" =>
       \A o \in HeldBefore :
         LET id == last.before.tracks[o].track_id
         IN (id \notin DOMAIN last.cache \/ Len(last.cache[id].outfits) < 2)
            => /\ \A k \in DOMAIN completed_tracklets :
                    completed_tracklets[k].source # o
               /\ id \notin DOMAIN track_appearances

\* a flush that dropped a track with one sample
C14_DroppedTrack ==
  /\ last.op = "finalize_all_tracks"
  /\ \E o \in HeldBefore :
       LET id == last.before.tracks[o].track_id
       IN /\ id \in DOMAIN last.cache
          /\ Len(last.cache[id].outfits) = 1
          /\ id \notin DOMAIN track_appearances
  /\ completed_tracklets = <<>>

\* C16: after finalize_all_tracks every track that was live or lost is
\* Removed, the tracked, lost and removed lists are empty, next_id and
\* frame_id are back at their initial values 1 and 0, and the appearance
\* cache is empty.
C16_FlushClearsAll ==
  last.op = "finalize_all_tracks" =>
    /\ \A o \in HeldBefore : tracks[o].state = Removed
    /\ tracked_tracks = <<>>
    /\ lost_tracks = <<>>
    /\ removed_tracks = <<>>
    /\ next_id = 1
    /\ frame_id = 0
    /\ track_appearances = <<>>

\* a flush of a tracker that held a live and a lost track, with samples
C16_FlushedHolding ==
  /\ last.op = "finalize_all_tracks"
  /\ last.before.tracked # <<>>
  /\ last.before.lost # <<>>
  /\ last.before.next_id > 1
  /\ last.before.frame_id > 0
  /\ last.cache # <<>>

FormulaTimes(t, n) ==
  40 * Min(10, n) * Len(t.confidence_history) * Max(1, t.age)
  + 4 * SumSeq(t.confidence_history) * Max(1, t.age)
  + 200 * t.hits * Len(t.confidence_history)
FormulaFactor(t) == 1000 * Len(t.confidence_history) * Max(1, t.age)

\* the first flush of a run has just built the Tracklets
FirstFlush == last.op = "finalize_all_tracks" /\ last.flushes = 1

C20_QualityInUnitInterval ==
  \A k \in DOMAIN completed_tracklets :
    LET q == completed_tracklets[k].quality
    IN q[2] > 0 /\ 0 <= q[1] /\ q[1] <= q[2]

\* a Tracklet of a track matched in every frame: age = 0 and 5 hits
C20_NeverMissed ==
  \E k \in DOMAIN completed_tracklets :
    LET t == tracks[completed_tracklets[k].source]
    IN t.age = 0 /\ t.hits > ConfirmHits + 1

\* C15: after the creation of a track and any number of Track.update
\* calls, bbox_history, confidence_history and frame_history have the same
\* length, at most 30, and hold the latest observations of the track in
\* the order they arrived: with hits observations so far, the last
\* min(hits, 30) of them.
C15_BoundedHistory ==
  \A o \in DOMAIN tracks :
    LET t == tracks[o]
        n == Len(t.frame_history)
    IN /\ n <= 30
       /\ n = Min(t.hits, 30)
       /\ Len(t.bbox_history) = n
       /\ Len(t.confidence_history) = n
       /\ \A i \in 1..n :
            LET d == ObservationAt(t.hits - n + i)
            IN /\ t.bbox_history[i] = d.bbox
               /\ t.confidence_history[i] = d.confidence
               /\ t.frame_history[i] = d.frame_id

\* the histories are full and the two oldest observations were evicted
C15_Evicted ==
  /\ tracks[1].hits = 32
  /\ Len(tracks[1].frame_history) = 30
  /\ tracks[1].frame_history[1] = 3

(***************************************************************************)
(* C21: for two boxes of positive area _iou is symmetric, lies in [0, 1],  *)
(* is 1 for identical boxes, 0 for boxes that do not overlap, and          *)
(* area(inner) / area(outer) when one box contains the other; when the     *)
(* union area is zero the value is 0.                                      *)
(***************************************************************************)
BoxArea(b) == (b[3] - b[1]) * (b[4] - b[2])

Contains(outer, inner) ==
  /\ outer[1] <= inner[1]
  /\ outer[2] <= inner[2]
  /\ inner[3] <= outer[3]
  /\ inner[4] <= outer[4]

Apart(b1, b2) ==
  \/ b1[3] <= b2[1]
  \/ b2[3] <= b1[1]
  \/ b1[4] <= b2[2]
  \/ b2[4] <= b1[2]

C21_IouAlgebra ==
  last.op = "_iou" =>
    LET b1 == last.dets[1].bbox
        b2 == last.dets[2].bbox
        v == last.value[1]
    IN /\ (BoxArea(b1) > 0 /\ BoxArea(b2) > 0) =>
            /\ last.value[2] = v
            /\ 0 <= v[1] /\ v[1] <= v[2] /\ v[2] > 0
            /\ (b1 = b2) => (v[1] = v[2])
            /\ Apart(b1, b2) => (v[1] = 0)
            /\ Contains(b1, b2) => (v[1] * BoxArea(b1) = v[2] * BoxArea(b2))
            /\ Contains(b2, b1) => (v[1] * BoxArea(b2) = v[2] * BoxArea(b1))
       /\ (BoxArea(b1) = 0 /\ BoxArea(b2) = 0) => (v[1] = 0)

\* a box strictly inside another: the value is the ratio of the areas
C21_Nested ==
  /\ last.op = "_iou"
  /\ last.dets[1].bbox = <<0, 0, 3, 2>>
  /\ last.dets[2].bbox = <<1, 0, 2, 2>>
  /\ last.value = <<<<1, 3>>, <<1, 3>>>>

HeldAfter == Range(tracked_tracks) \cup Range(lost_tracks)

MatchesOfTrack(o) == {i \in MatchCalls : last.events[i].track = o}

UsesOfDet(d) == {i \in DOMAIN last.events : last.events[i].det = d}

NoDuplicates(seq) == \A i, j \in DOMAIN seq : seq[i] = seq[j] => i = j

TouchedInCall(o) == \E i \in DOMAIN last.events : last.events[i].track = o

C25_FramesSinceMatch ==
  last.op = "process_frame" =>
    \A o \in HeldAfter :
      IF TouchedInCall(o)
      THEN tracks[o].time_since_update = 0
      ELSE tracks[o].time_since_update
             = last.before.tracks[o].time_since_update + 1

(***************************************************************************)
(* C26: in each ByteTracker.update call every confirmed (Tracked) track    *)
(* that stages 1 and 2 left unmatched has time_since_update and age each   *)
(* increased by exactly 1, and no other track has its time_since_update or *)
(* its age increased.                                                      *)
(***************************************************************************)
ConfirmedBefore(o) ==
  /\ o \in Range(last.before.tracked)
  /\ last.before.tracks[o].state = Tracked

MatchedEarly(o) ==
  \E i \in MatchCalls :
    last.events[i].track = o /\ last.events[i].stage \in {1, 2}

C27_LostAfterThreeMisses ==
  last.op = "process_frame" =>
    \A o \in DOMAIN last.before.tracks :
      LET was == last.before.tracks[o]
          now == tracks[o]
      IN was.state = Tracked =>
           /\ now.state # Removed
           /\ ~TouchedInCall(o) =>
                /\ now.time_since_update > was.time_since_update
                /\ now.time_since_update <= 3 => now.state = Tracked
                /\ (was.time_since_update <= 3 /\ now.time_since_update > 3)
                     => now.state = Lost

\* the fourth missed frame in a row has just turned the track Lost
C27_FourthMiss ==
  /\ last.op = "process_frame"
  /\ ~TouchedInCall(1)
  /\ last.before.tracks[1].state = Tracked
  /\ last.before.tracks[1].time_since_update = 3
  /\ tracks[1].time_since_update = 4
  /\ tracks[1].state = Lost

StartsTrack(d) ==
  /\ last.dets[d].confidence >= 60
  /\ (last.dets[d].bbox[3] - last.dets[d].bbox[1])
       * (last.dets[d].bbox[4] - last.dets[d].bbox[2]) >= 100
  /\ \A i \in MatchCalls : last.events[i].det # d

CreatedFrom(d) == {i \in Constructions : last.events[i].det = d}

C29_NewTrackPerDetection ==
  last.op = "process_frame" =>
    /\ \A d \in DOMAIN last.dets :
         IF StartsTrack(d)
         THEN /\ Cardinality(CreatedFrom(d)) = 1
              /\ \A i \in CreatedFrom(d) :
                   LET t == tracks[last.events[i].track]
                   IN /\ last.events[i].track \notin DOMAIN last.before.tracks
                      /\ t.state = New
                      /\ t.hits = 1
                      /\ t.time_since_update = 0
                      /\ t.age = 0
                      /\ t.bbox = last.dets[d].bbox
                      /\ t.bbox_history = <<last.dets[d].bbox>>
                      /\ t.confidence_history = <<last.dets[d].confidence>>
                      /\ t.frame_history = <<last.dets[d].frame_id>>
         ELSE CreatedFrom(d) = {}
    /\ Len(tracks) - Len(last.before.tracks)
         = Cardinality({d \in DOMAIN last.dets : StartsTrack(d)})

\* a frame with a box below min_box_area and an unmatched person: one track
\* is created, from the person
C29_OneOfTwo ==
  /\ last.op = "process_frame"
  /\ Len(last.dets) = 2
  /\ ~StartsTrack(1)
  /\ StartsTrack(2)
  /\ Len(tracks) = Len(last.before.tracks) + 1
  /\ tracks[Len(tracks)].bbox = BoxC

(***************************************************************************)
(* C30: every pair a matching stage accepts has an IoU of at least the     *)
(* threshold of the stage (0.5 in stage 1, 0.4 in stage 2, 0.35 in stage   *)
(* 3), the IoU taken between the detection and the box the track had when  *)
(* the stage compared them; a pair the assignment chose with a lower IoU   *)
(* is dropped and its track and detection leave the stage unmatched: when  *)
(* one confirmed track meets one detection below the threshold of its      *)
(* stage, the stage matches nothing and the track is marked missed.        *)
(***************************************************************************)
\* the matches of the call made on the track of match i in earlier stages
EarlierMatches(i) ==
  {j \in MatchCalls :
     /\ last.events[j].track = last.events[i].track
     /\ last.events[j].stage < last.events[i].stage}

\* the box of the track of match i when its stage compared it
BoxAtMatch(i) ==
  IF EarlierMatches(i) = {}
  THEN last.before.tracks[last.events[i].track].bbox
  ELSE last.dets[last.events[CHOOSE j \in EarlierMatches(i) :
                               \A k \in EarlierMatches(i) : k <= j].det].bbox

AtLeastThreshold(iou, stage) ==
  IF stage = 1 THEN 2 * iou[1] >= iou[2]
  ELSE IF stage = 2 THEN 5 * iou[1] >= 2 * iou[2]
  ELSE 20 * iou[1] >= 7 * iou[2]

\* the tracker held one track, Tracked and in no list twice, and the frame
\* has one detection, whose IoU with it is below the threshold of the
\* stage the detection goes to
LonePairBelow ==
  /\ last.before.tracked = <<1>>
  /\ last.before.lost = <<>>
  /\ last.before.tracks[1].state = Tracked
  /\ Len(last.dets) = 1
  /\ ~AtLeastThreshold(Iou(last.before.tracks[1].bbox, last.dets[1].bbox),
                       IF last.dets[1].confidence >= 60 THEN 1 ELSE 2)

C30_AcceptedAboveThreshold ==
  last.op = "process_frame" =>
    /\ \A i \in MatchCalls :
         AtLeastThreshold(Iou(BoxAtMatch(i),
                              last.dets[last.events[i].det].bbox),
                          last.events[i].stage)
    /\ LonePairBelow =>
         /\ MatchCalls = {}
         /\ tracks[1].time_since_update
              = last.before.tracks[1].time_since_update + 1

\* a pair below the threshold was dropped in stage 2: the track was marked
\* missed and the low-confidence detection started nothing
C30_DroppedInStageTwo ==
  /\ last.op = "process_frame"
  /\ LonePairBelow
  /\ last.dets[1].confidence < 60
  /\ last.events = <<>>
  /\ tracks[1].time_since_update = 1

(***************************************************************************)
(* C31: a detection with confidence below track_thresh never starts a      *)
(* track and never recovers a track from lost_tracks: if it is used at     *)
(* all, it updates in stage 2 a track that was confirmed (Tracked, in      *)
(* tracked_tracks) and that stage 1 left unmatched.  A detection with      *)
(* confidence equal to track_thresh is high-confidence: it is matched in   *)
(* stage 1 or 3 or starts a track.                                         *)
(***************************************************************************)
UsedInStages(d, stages) ==
  \E i \in DOMAIN last.events :
    last.events[i].det = d /\ last.events[i].stage \in stages

LargeEnough(d) == BoxArea(d.bbox) >= 100

C32_SmallBoxIgnored ==
  last.op = "process_frame" =>
    /\ \A d \in DOMAIN last.dets :
         /\ ~LargeEnough(last.dets[d]) => ~UsedInStages(d, {0, 1, 2, 3})
         /\ (BoxArea(last.dets[d].bbox) = 100 /\ last.dets[d].confidence >= 60)
              => UsedInStages(d, {0, 1, 3})
    /\ \E r \in UpdateOutcomes(last.before, SelectSeq(last.dets, LargeEnough)) :
         /\ r.tracks = tracks
         /\ r.tracked = tracked_tracks
         /\ r.lost = lost_tracks
         /\ r.next_id = next_id
         /\ r.frame_id = frame_id

\* a frame with a sure box of area 99 and the person, unsure: the person
\* updates the track in stage 2 and the small box starts nothing
C32_SmallBoxBesidePerson ==
  /\ last.op = "process_frame"
  /\ Len(last.dets) = 2
  /\ BoxArea(last.dets[1].bbox) = 99
  /\ last.dets[1].confidence >= 60
  /\ last.events = <<[stage |-> 2, track |-> 1, det |-> 2]>>
  /\ Len(tracks) = Len(last.before.tracks)

C34_CacheOfHeldTracks ==
  last.op \in {"process_frame", "finalize_all_tracks"} =>
    /\ \A id \in DOMAIN track_appearances :
         \E o \in HeldAfter : tracks[o].track_id = id
    /\ \A o \in DOMAIN last.before.tracks :
         (last.before.tracks[o].state # Removed /\ tracks[o].state = Removed)
           => tracks[o].track_id \notin DOMAIN track_appearances
    /\ last.op = "process_frame" => removed_tracks = <<>>

\* a flush of a track sampled once: no Tracklet, and its entry is gone
C34_DroppedWithoutTracklet ==
  /\ FirstFlush
  /\ 1 \in DOMAIN last.cache
  /\ Len(last.cache[1].outfits) = 1
  /\ tracks[1].state = Removed
  /\ completed_tracklets = <<>>
  /\ track_appearances = <<>>

(***************************************************************************)
(* C35: the confidence of a Tracklet, which is also the conf_score of its  *)
(* quality, is track.average_confidence, and that is the mean of the       *)
(* confidences of all detections matched to the track over its lifetime,   *)
(* also after more than 30 matches.  The track of SpecHistory was created  *)
(* from ObservationAt(1) and matched to ObservationAt(2), ... in turn.     *)
(***************************************************************************)
RECURSIVE LifetimeConfidence(_)
LifetimeConfidence(n) ==
  IF n = 0 THEN 0 ELSE ObservationAt(n).confidence + LifetimeConfidence(n - 1)

C35_MeanOverLifetime ==
  LET q == AverageConfidence(tracks[1])
  IN q[1] * 100 * tracks[1].hits = q[2] * LifetimeConfidence(tracks[1].hits)

(***************************************************************************)
(* C36: the aggregated outfit has, for each of top, bottom and shoes and   *)
(* separately for type and color, the value that occurs most often among   *)
(* the samples, and among values equally frequent the one that occurs      *)
(* first; aggregating the list again after an aggregation gives the same   *)
(* outfit.                                                                 *)
(***************************************************************************)
CountOf(samples, part, field, v) ==
  Cardinality({i \in DOMAIN samples : samples[i][part][field] = v})

FirstOf(samples, part, field, v) ==
  CHOOSE i \in DOMAIN samples :
    /\ samples[i][part][field] = v
    /\ \A j \in DOMAIN samples : samples[j][part][field] = v => i <= j

C36_ModePerField ==
  last.op = "_aggregate_outfits" =>
    LET samples == last.cache[1].outfits
        outfit == last.value[Len(last.value)]
    IN /\ \A part \in {"top", "bottom", "shoes"}, field \in {"type", "color"} :
            LET v == outfit[part][field]
            IN /\ \E i \in DOMAIN samples : samples[i][part][field] = v
               /\ \A i \in DOMAIN samples :
                    LET w == samples[i][part][field]
                    IN \/ w = v
                       \/ CountOf(samples, part, field, w)
                            < CountOf(samples, part, field, v)
                       \/ /\ CountOf(samples, part, field, w)
                               = CountOf(samples, part, field, v)
                          /\ FirstOf(samples, part, field, v)
                               < FirstOf(samples, part, field, w)
       /\ \A k \in DOMAIN last.value : last.value[k] = last.value[1]

\* three samples aggregated twice: the outfit mixes them (no sample has
\* it), with the tie of the top colors going to the first
C36_MixedTwice ==
  /\ last.op = "_aggregate_outfits"
  /\ Len(last.value) = 2
  /\ Len(track_appearances[1].outfits) = 3
  /\ last.value[2] = [top |-> Garment("shirt", "red"),
                       bottom |-> Garment("shorts", "black"),
                       shoes |-> Garment("boots", "white")]

RECURSIVE TotalHeight(_)
TotalHeight(boxes) ==
  IF boxes = <<>> THEN 0
  ELSE (Head(boxes)[4] - Head(boxes)[2]) + TotalHeight(Tail(boxes))

C38_HeightCategory ==
  last.op = "_estimate_physique" =>
    LET boxes == track_appearances[1].bboxes
        n == Len(boxes)
        r == last.value[1]
    IN IF n = 0
       THEN r.height_category = "medium" /\ r.aspect_ratio = <<1, 2>>
       ELSE /\ TotalHeight(boxes) < 100 * n => r.height_category = "short"
            /\ TotalHeight(boxes) > 200 * n => r.height_category = "tall"
            /\ (100 * n <= TotalHeight(boxes) /\ TotalHeight(boxes) <= 200 * n)
                 => r.height_category = "medium"

\* boxes of heights 99 and 101: the mean is exactly 100, medium
C38_MeanExactlyHundred ==
  /\ last.op = "_estimate_physique"
  /\ track_appearances[1].bboxes = <<<<0, 0, 50, 99>>, <<0, 0, 50, 101>>>>
  /\ last.value[1].height_category = "medium"

====
